---- MODULE Spec2Model ----
(***************************************************************************)
(* Model of the Patchwork calculation agent (runner.go).                   *)
(*                                                                         *)
(*   Spec     service mode: Server's handler behind limitNumClients, one   *)
(*            goroutine per request, RunCalculation at stage granularity.  *)
(*   FairSpec Spec with weak fairness on the steps of admitted handlers.   *)
(*   JobSpec  one RunCalculation call in detail: working directory, clock, *)
(*            deadline timer, captured stderr, packaging and upload.       *)
(*   UnitSpec one call of a function of runner.go on arguments drawn from  *)
(*            bounded sets.                                                *)
(***************************************************************************)
EXTENDS Integers, Sequences, FiniteSets, TLC

VARIABLES
    maxClients,   \* capacity of the sema channel (the -concurrency flag)
    semaCount,    \* number of elements buffered in sema
    sendq,        \* goroutines blocked in the send on sema, in arrival order
    pc,           \* per request: position of its goroutine
    method,       \* per request: the HTTP method
    tempDirs,     \* temp directories that exist on disk (named by request)
    dirCreated,   \* per request: ioutil.TempDir succeeded for it
    jobRun,       \* per request: RunCalculation was called
    result,       \* per request: what RunCalculation returned
    status,       \* per request: status written to the response (0: none)
    wasBlocked,   \* per request: it had to wait for a slot
    \* ---- one RunCalculation call in detail (JobSpec) ----
    dirpath,      \* the working directory passed to RunCalculation
    fs,           \* per directory: its entries [name, isDir, mtime, data]
    fs0,          \* fs when RunCalculation was called
    now,          \* the clock, in ticks
    timeout,      \* the -timeout flag, in ticks
    jpc,          \* position of the call
    calcContext,  \* inputs fetched and not yet expanded
    getResp,      \* the coordinator's answer to the GET (NoResp before)
    since,        \* t, the timestamp of line 176
    deadline,     \* the deadline of ctx (-1: no ctx yet)
    ctxErr,       \* ctx.Err(): "nil", "DeadlineExceeded" or "Canceled"
    proc,         \* the command's process
    nwrites,      \* number of entries the process has written
    written,      \* names of the entries the process has written
    exitedAt,     \* when the process ended by itself (-1: it has not)
    stdoutBuf,    \* captured stdout
    stderrBuf,    \* captured stderr
    changed,      \* what GetChangedFiles returned (res "none" before)
    response,     \* what PackageResult returned (NoResponse before)
    uploads,      \* the bodies POSTed to the coordinator, in order
    postResp,     \* the coordinator's answer to the POST (NoResp before)
    expired,      \* the deadline passed while the command was running
    jresult,      \* what RunCalculation returned
    stageLog,     \* the stages the call went through, in order
    \* ---- one call of a library function on its own (UnitSpec) ----
    call,         \* the function called and its arguments (NoCall: none)
    ret           \* what the call returned (NoRet before it returns)

svars == <<maxClients, semaCount, sendq, pc, method, tempDirs, dirCreated,
           jobRun, result, status, wasBlocked>>

jvars == <<dirpath, fs, fs0, now, timeout, jpc, calcContext, getResp, since,
           deadline, ctxErr, proc, nwrites, written, exitedAt, stdoutBuf,
           stderrBuf, changed, response, uploads, postResp, expired, jresult,
           stageLog>>

uvars == <<call, ret>>

\* what the steps of a handler, and of a job, leave alone
ujvars == <<uvars, jvars>>
usvars == <<uvars, svars>>

vars == <<svars, jvars, uvars>>

(***************************************************************************)
(* Bounds                                                                  *)
(***************************************************************************)
NumRequests == 2
MaxCapacity == 2
MaxTime == 1
MaxTimeout == 1
MaxWrites == 1
MaxText == 4
MaxData == 4

Requests == 1..NumRequests
Methods == {"POST", "GET"}

(***************************************************************************)
(* JSON values of the calculation context's inputs.  A string is a         *)
(* sequence of tokens, so that prefix tests and splitting are computed.    *)
(***************************************************************************)
NULL == [kind |-> "null"]
Number5 == [kind |-> "number"]
Str(s) == [kind |-> "string", chars |-> s]
Obj(n, c, u) == [kind |-> "object", name |-> n, contentType |-> c, uri |-> u]
TrueValue == [kind |-> "boolean"]
Array5 == [kind |-> "array"]

GoodUri == <<"data:", "image/png", ";base64", ",", "AAAA">>
NoSchemeUri == <<"http:", "//x", ",", "AAAA">>
NoCommaUri == <<"data:", "image/png", ";base64">>
BadB64Uri == <<"data:", "image/png", ";base64", ",", "!!">>

EmptyPayloadUri == <<"data:", "image/png", ";base64", ",">>
TwoCommaUri == <<"data:", "image/png", ";base64", ",", "AAAA", ",", "QUJD">>
PaddedUri == <<"data:", "image/png", ";base64", ",", "QUJD", "QQ==">>

PngName == <<"x", ".", "png">>

Contents ==
    { NULL, Number5,
      Obj(NULL, NULL, NULL),
      Obj(Str(PngName), Str(<<"image/png">>), Str(GoodUri)),
      Obj(Str(PngName), Str(<<"image/png">>), Str(NoSchemeUri)),
      Obj(Str(PngName), Str(<<"image/png">>), Str(NoCommaUri)),
      Obj(Str(PngName), Str(<<"image/png">>), Str(BadB64Uri)),
      Obj(Str(PngName), Number5, Str(GoodUri)) }

(***************************************************************************)
(* Strings                                                                 *)
(***************************************************************************)
HasPrefix(s, tok) == Len(s) >= 1 /\ s[1] = tok

\* strings.SplitN(s, sep, 2): one part when sep does not occur, else two
SplitN2(s, sep) ==
    IF \E i \in 1..Len(s) : s[i] = sep
    THEN LET i == CHOOSE k \in 1..Len(s) :
                      s[k] = sep /\ \A j \in 1..(k - 1) : s[j] # sep
         IN <<SubSeq(s, 1, i - 1), SubSeq(s, i + 1, Len(s))>>
    ELSE <<s>>

\* strings.LastIndex(s, tok), 0 when absent (Go: -1, indices from 0)
LastIndex(s, tok) ==
    IF \E i \in 1..Len(s) : s[i] = tok
    THEN CHOOSE k \in 1..Len(s) :
             s[k] = tok /\ \A j \in (k + 1)..Len(s) : s[j] # tok
    ELSE 0

\* base64.StdEncoding: a token of the payload is one group of four
\* characters, standing for three bytes, or for one or two when padded
Base64Table ==
    ("AA==" :> <<0>>) @@ ("QQ==" :> <<65>>) @@
    ("AAA=" :> <<0, 0>>) @@ ("AEE=" :> <<0, 65>>) @@
    ("QQA=" :> <<65, 0>>) @@ ("QUE=" :> <<65, 65>>) @@
    ("AAAA" :> <<0, 0, 0>>) @@ ("AABB" :> <<0, 0, 65>>) @@
    ("AEEA" :> <<0, 65, 0>>) @@ ("AEFB" :> <<0, 65, 65>>) @@
    ("QQAA" :> <<65, 0, 0>>) @@ ("QQBB" :> <<65, 0, 65>>) @@
    ("QUEA" :> <<65, 65, 0>>) @@ ("QUFB" :> <<65, 65, 65>>) @@
    ("QUJD" :> <<65, 66, 67>>)

\* base64.StdEncoding.DecodeString accepts it: groups of the alphabet, a
\* padded group only as the last one
Base64Valid(b64) ==
    \A i \in 1..Len(b64) :
       /\ b64[i] \in DOMAIN Base64Table
       /\ i < Len(b64) => Len(Base64Table[b64[i]]) = 3

RECURSIVE Base64Decode(_)
Base64Decode(b64) ==
    IF b64 = <<>> THEN <<>>
    ELSE Base64Table[Head(b64)] \o Base64Decode(Tail(b64))

\* json.Marshal of an input value, as the text written to <name>.json
JsonMarshal(v) ==
    CASE v.kind = "null" -> <<"null">>
      [] v.kind = "number" -> <<"5">>
      [] v.kind = "string" -> <<"\"">> \o v.chars \o <<"\"">>
      [] v.kind = "boolean" -> <<"true">>
      [] v.kind = "array" -> <<"[", "5", "]">>
      [] v.kind = "object" ->
            <<"{">> \o
            (IF v.contentType = NULL THEN <<"contentType:null">>
                                     ELSE <<"contentType:value">>) \o
            (IF v.name = NULL THEN <<"name:null">> ELSE <<"name:value">>) \o
            (IF v.uri = NULL THEN <<"uri:null">> ELSE <<"uri:value">>) \o
            <<"}">>

(***************************************************************************)
(* ReadArtefact (436-449): the outcome of decoding one Artefact.           *)
(* res is "nil", "error" or "panic"; writes is the set of files written.   *)
(***************************************************************************)
ReadArtefact(name, artefact, ioOk) ==
    IF ~HasPrefix(artefact.uri, "data:")
    THEN [res |-> "error", err |-> "Not a data URI", writes |-> {}]
    ELSE LET parts == SplitN2(artefact.uri, ",") IN
         IF Len(parts) < 2
         THEN [res |-> "panic", err |-> "index out of range [1]",
               writes |-> {}]
         ELSE IF ~Base64Valid(parts[2])
         THEN [res |-> "error", err |-> "illegal base64 data", writes |-> {}]
         ELSE LET k == LastIndex(artefact.name, ".")
                  extension == SubSeq(artefact.name, k + 1, Len(artefact.name))
              IN IF ioOk
                 THEN [res |-> "nil", err |-> "",
                       writes |-> {[name |-> <<name, ".">> \o extension,
                                    data |-> Base64Decode(parts[2])]}]
                 ELSE [res |-> "error", err |-> "write failed",
                       writes |-> {}]

(***************************************************************************)
(* HandleAsArtefact (421-434).  The unchecked type assertions panic on a   *)
(* value that is not an object, or on a field that is not a string.        *)
(***************************************************************************)
HandleAsArtefact(name, content, ioOk) ==
    IF content = NULL
    THEN [isArtefact |-> FALSE, res |-> "nil", writes |-> {}]
    ELSE IF content.kind # "object"
    THEN [isArtefact |-> FALSE, res |-> "panic", writes |-> {}]
    ELSE IF /\ content.name # NULL
            /\ content.uri # NULL
            /\ content.contentType # NULL
    THEN IF \E f \in {content.name, content.uri, content.contentType} :
                f.kind # "string"
         THEN [isArtefact |-> FALSE, res |-> "panic", writes |-> {}]
         ELSE LET o == ReadArtefact(name,
                           [name |-> content.name.chars,
                            contentType |-> content.contentType.chars,
                            uri |-> content.uri.chars], ioOk)
              IN [isArtefact |-> TRUE, res |-> o.res, writes |-> o.writes]
    ELSE [isArtefact |-> FALSE, res |-> "nil", writes |-> {}]

(***************************************************************************)
(* ExpandContextFile (259-274)                                             *)
(***************************************************************************)
ExpandContextFileNoSkip(name, content, ioOk) ==
    LET h == HandleAsArtefact(name, content, ioOk) IN
    IF h.res # "nil"
    THEN [res |-> h.res, writes |-> h.writes]
    ELSE [res |-> "nil",
          writes |-> h.writes \cup {[name |-> <<name, ".", "json">>,
                                     data |-> JsonMarshal(content)]}]

ExpandContextFile(name, content, ioOk) ==
    LET h == HandleAsArtefact(name, content, ioOk) IN
    IF h.res # "nil"
    THEN [res |-> h.res, writes |-> h.writes]
    ELSE IF ~h.isArtefact /\ content # NULL
    THEN IF ioOk
         THEN [res |-> "nil",
               writes |-> {[name |-> <<name, ".", "json">>,
                            data |-> JsonMarshal(content)]}]
         ELSE [res |-> "error", writes |-> {}]
    ELSE [res |-> "nil", writes |-> h.writes]

(***************************************************************************)
(* What the coordinator can answer to GetContext's GET and SendResult's    *)
(* POST: a transport failure (no response), or a response with a status.   *)
(***************************************************************************)
Contexts == {{}} \cup { {[name |-> "a", value |-> c]} : c \in Contents }

Answer(code, b, ins) ==
    [transport |-> "ok", status |-> code, body |-> b, inputs |-> ins]

GetResponses ==
    { [transport |-> "failed"] }
    \cup { Answer(404, "context", c) :
             c \in {{}, {[name |-> "a", value |-> Obj(NULL, NULL, NULL)]}} }
    \cup { Answer(200, "malformed", {}) }
    \cup { Answer(200, "context", c) : c \in Contexts }

PostResponses ==
    { [transport |-> "failed"],
      [transport |-> "ok", status |-> 200],
      [transport |-> "ok", status |-> 500] }

(***************************************************************************)
(* GetContext (230-247): the error it returns and the context it decoded   *)
(***************************************************************************)
OkStatusAny(code) == TRUE

OkStatus(code) == code = 200

GetContext(resp) ==
    IF resp.transport = "failed"
    THEN [res |-> "error", inputs |-> {}]
    ELSE IF ~OkStatus(resp.status)
    THEN [res |-> "error", inputs |-> {}]
    ELSE IF resp.body = "malformed"
    THEN [res |-> "error", inputs |-> {}]
    ELSE [res |-> "nil", inputs |-> resp.inputs]

(***************************************************************************)
(* SendResult (388-402): resp.StatusCode is read before err is looked at,  *)
(* and resp is nil when the transport failed.                              *)
(***************************************************************************)
SendResult(resp) ==
    IF resp.transport = "failed"
    THEN "panic"                          \* nil pointer dereference
    ELSE IF resp.status # 200 THEN "error" ELSE "nil"

(***************************************************************************)
(* The sema channel of limitNumClients (146-154)                           *)
(***************************************************************************)
SemaFullOffByOne == semaCount > maxClients

SemaFull == semaCount >= maxClients

\* sema <- struct{}{} by request r's goroutine: take a slot or block
SemaSend(r) ==
    IF ~SemaFull
    THEN /\ semaCount' = semaCount + 1
         /\ pc' = [pc EXCEPT ![r] = "handler"]
         /\ UNCHANGED <<sendq, wasBlocked>>
    ELSE /\ sendq' = Append(sendq, r)
         /\ pc' = [pc EXCEPT ![r] = "blocked"]
         /\ wasBlocked' = [wasBlocked EXCEPT ![r] = TRUE]
         /\ UNCHANGED semaCount

SemaReceiveLostWakeup(r, final) ==
    /\ pc' = [pc EXCEPT ![r] = final]
    /\ semaCount' = semaCount - 1
    /\ UNCHANGED sendq

\* the deferred <-sema, run as request r's handling ends at position final:
\* with a sender blocked the element received is replaced by that sender's
\* and the sender is woken, in arrival order
SemaReceive(r, final) ==
    IF sendq # <<>>
    THEN /\ pc' = [pc EXCEPT ![r] = final, ![Head(sendq)] = "handler"]
         /\ sendq' = Tail(sendq)
         /\ UNCHANGED semaCount
    ELSE /\ pc' = [pc EXCEPT ![r] = final]
         /\ semaCount' = semaCount - 1
         /\ UNCHANGED sendq

(***************************************************************************)
(* Directories and their entries                                           *)
(***************************************************************************)
Dirs == {"cwd", "temp"}

File(n, t, d) == [name |-> n, isDir |-> FALSE, mtime |-> t, data |-> d]
Subdir(n, t) == [name |-> n, isDir |-> TRUE, mtime |-> t, data |-> <<>>]

AJson == <<"a", ".", "json">>
BJson == <<"b", ".", "json">>
SubName == <<"sub">>
OutBin == <<"out", ".", "bin">>

Names(entries) == { e.name : e \in entries }

\* values standing for "not yet"
NoResp == [transport |-> "none"]
NoChanged == [res |-> "none", paths |-> {}]
NoResponse == [none |-> TRUE]

\* os.WriteFile, or the command writing entry e: it replaces the entry of
\* that name
WriteEntry(entries, e) == { x \in entries : x.name # e.name } \cup {e}

NoCall == [fn |-> "none"]
NoRet == [res |-> "none"]

\* no library function is called on its own
UnitIdle == call = NoCall /\ ret = NoRet

\* the job's state while no RunCalculation call is modelled in detail
JobIdle ==
    /\ dirpath = "cwd"
    /\ fs = [d \in Dirs |-> {}]
    /\ fs0 = fs
    /\ now = 0
    /\ timeout = 1
    /\ jpc = "idle"
    /\ calcContext = {}
    /\ getResp = NoResp
    /\ since = 0
    /\ deadline = -1
    /\ ctxErr = "nil"
    /\ proc = "none"
    /\ nwrites = 0
    /\ written = {}
    /\ exitedAt = -1
    /\ stdoutBuf = <<>>
    /\ stderrBuf = <<>>
    /\ changed = NoChanged
    /\ response = NoResponse
    /\ uploads = <<>>
    /\ postResp = NoResp
    /\ expired = FALSE
    /\ jresult = "none"
    /\ stageLog = <<>>

(***************************************************************************)
(* Service mode: the handler registered by Server (109-142)                *)
(***************************************************************************)
InitService ==
    /\ maxClients \in 1..MaxCapacity
    /\ semaCount = 0
    /\ sendq = <<>>
    /\ pc = [r \in Requests |-> "new"]
    /\ method = [r \in Requests |-> "POST"]
    /\ tempDirs = {}
    /\ dirCreated = [r \in Requests |-> FALSE]
    /\ jobRun = [r \in Requests |-> FALSE]
    /\ result = [r \in Requests |-> "none"]
    /\ status = [r \in Requests |-> 0]
    /\ wasBlocked = [r \in Requests |-> FALSE]
    /\ JobIdle
    /\ UnitIdle

\* a request arrives; its goroutine enters limitNumClients' wrapper (149-150)
Request(r, m) ==
    /\ pc[r] = "new"
    /\ method' = [method EXCEPT ![r] = m]
    /\ SemaSend(r)
    /\ UNCHANGED <<ujvars, maxClients, tempDirs, dirCreated, jobRun, result,
                   status>>

\* f(w, req) up to the call of RunCalculation (111-126)
HandlerBegin(r, tempDirOk) ==
    /\ pc[r] = "handler"
    /\ IF method[r] = "POST"
       THEN IF tempDirOk
            THEN /\ tempDirs' = tempDirs \cup {r}
                 /\ dirCreated' = [dirCreated EXCEPT ![r] = TRUE]
                 /\ jobRun' = [jobRun EXCEPT ![r] = TRUE]
                 /\ pc' = [pc EXCEPT ![r] = "GetContext"]
                 /\ UNCHANGED <<status, semaCount, sendq>>
            ELSE /\ status' = [status EXCEPT ![r] = 500]
                 /\ SemaReceive(r, "done")
                 /\ UNCHANGED <<tempDirs, dirCreated, jobRun>>
       ELSE /\ status' = [status EXCEPT ![r] = 404]
            /\ SemaReceive(r, "done")
            /\ UNCHANGED <<tempDirs, dirCreated, jobRun>>
    /\ UNCHANGED <<ujvars, maxClients, method, result, wasBlocked>>

HandlerPanicNoRelease(r) ==
    /\ result' = [result EXCEPT ![r] = "panic"]
    /\ pc' = [pc EXCEPT ![r] = "panicked"]
    /\ UNCHANGED <<ujvars, maxClients, semaCount, sendq, method, tempDirs,
                   dirCreated, jobRun, status, wasBlocked>>

\* a panic in the handler's goroutine: the deferred receive runs, net/http
\* recovers, nothing is written to the response and line 127 is not reached
HandlerPanic(r) ==
    /\ result' = [result EXCEPT ![r] = "panic"]
    /\ SemaReceive(r, "panicked")
    /\ UNCHANGED <<ujvars, maxClients, method, tempDirs, dirCreated, jobRun,
                   status, wasBlocked>>

\* RunCalculation returned res to the handler (127-133), which then returns
HandlerEnd(r, res) ==
    /\ result' = [result EXCEPT ![r] = res]
    /\ tempDirs' = tempDirs \ {r}
    /\ status' = [status EXCEPT ![r] = IF res # "nil" THEN 500 ELSE 200]
    /\ SemaReceive(r, "done")
    /\ UNCHANGED <<ujvars, maxClients, method, dirCreated, jobRun, wasBlocked>>

(***************************************************************************)
(* RunCalculation (156-228) as run by a handler, one step per stage.  What *)
(* a stage's collaborators answer is the environment's choice.             *)
(***************************************************************************)
\* the outcomes ExpandContext (249-257) can have on these inputs: its loop
\* visits the map in any order and stops at the first failure
ExpandContextResults(ins, ioOk) ==
    LET res(in) == ExpandContextFile(in.name, in.value, ioOk).res IN
    IF \A in \in ins : res(in) = "nil"
    THEN {"nil"}
    ELSE { res(in) : in \in { x \in ins : res(x) # "nil" } }

\* 161-173: GetContext, then ExpandContext into the handler's own directory
HFetchExpand(r) ==
    /\ pc[r] = "GetContext"
    /\ \E resp \in GetResponses, ioOk \in BOOLEAN :
         LET g == GetContext(resp) IN
         IF g.res # "nil"
         THEN HandlerEnd(r, g.res)
         ELSE \E res \in ExpandContextResults(g.inputs, ioOk) :
                CASE res = "nil" ->
                       /\ pc' = [pc EXCEPT ![r] = "Run"]
                       /\ UNCHANGED <<ujvars, maxClients, semaCount, sendq,
                                      method, tempDirs, dirCreated, jobRun,
                                      result, status, wasBlocked>>
                  [] res = "error" -> HandlerEnd(r, "error")
                  [] res = "panic" -> HandlerPanic(r)

\* cmd.Run starts the command (176-199)
HRun(r) ==
    /\ pc[r] = "Run"
    /\ pc' = [pc EXCEPT ![r] = "Running"]
    /\ UNCHANGED <<ujvars, maxClients, semaCount, sendq, method, tempDirs,
                   dirCreated, jobRun, result, status, wasBlocked>>

\* cmd.Run returns: the command exited or was killed at the deadline; either
\* way RunCalculation goes on to package (199-210)
HWait(r) ==
    /\ pc[r] = "Running"
    /\ pc' = [pc EXCEPT ![r] = "PackageResult"]
    /\ UNCHANGED <<ujvars, maxClients, semaCount, sendq, method, tempDirs,
                   dirCreated, jobRun, result, status, wasBlocked>>

\* PackageResult (214-219): it fails when the directory or a file cannot be read
HPackageResult(r) ==
    /\ pc[r] = "PackageResult"
    /\ \E ok \in BOOLEAN :
         IF ok
         THEN /\ pc' = [pc EXCEPT ![r] = "SendResult"]
              /\ UNCHANGED <<ujvars, maxClients, semaCount, sendq, method,
                             tempDirs, dirCreated, jobRun, result, status,
                             wasBlocked>>
         ELSE HandlerEnd(r, "error")

\* SendResult (221-227)
HSendResult(r) ==
    /\ pc[r] = "SendResult"
    /\ \E resp \in PostResponses :
         LET res == SendResult(resp) IN
         IF res = "panic" THEN HandlerPanic(r) ELSE HandlerEnd(r, res)

NextService ==
    \/ \E r \in Requests, m \in Methods : Request(r, m)
    \/ \E r \in Requests, ok \in BOOLEAN : HandlerBegin(r, ok)
    \/ \E r \in Requests : HFetchExpand(r)
    \/ \E r \in Requests : HRun(r)
    \/ \E r \in Requests : HWait(r)
    \/ \E r \in Requests : HPackageResult(r)
    \/ \E r \in Requests : HSendResult(r)

Spec == InitService /\ [][NextService]_vars

(***************************************************************************)
(* TrimAndSplit (292-299) on a text given as a sequence of tokens          *)
(***************************************************************************)
Cutset == {" ", "\t", "\r", "\n"}

RECURSIVE TrimLeft(_)
TrimLeft(str) ==
    IF str # <<>> /\ Head(str) \in Cutset THEN TrimLeft(Tail(str)) ELSE str

RECURSIVE TrimRight(_)
TrimRight(str) ==
    IF str # <<>> /\ str[Len(str)] \in Cutset
    THEN TrimRight(SubSeq(str, 1, Len(str) - 1))
    ELSE str

\* strings.Trim(str, " \t\r\n")
Trim(str) == TrimRight(TrimLeft(str))

\* strings.Split(str, "\n")
RECURSIVE Split(_)
Split(str) ==
    LET parts == SplitN2(str, "\n") IN
    IF Len(parts) = 1 THEN <<str>> ELSE <<parts[1]>> \o Split(parts[2])

TrimAndSplit(str) ==
    LET t == Trim(str) IN IF Len(t) > 0 THEN Split(t) ELSE <<>>

(***************************************************************************)
(* GetChangedFiles (355-375) on the entries ReadDir lists for dirpath.     *)
(* filepath.Abs(file.Name()) resolves the bare name against the process's  *)
(* current directory, whatever dirpath is.                                 *)
(***************************************************************************)
AfterOrAt(t, u) == t >= u

After(t, u) == t > u

Included(file, t) == ~file.isDir /\ After(file.mtime, t)

GetChangedFiles(entries, t, readDirOk, absOk) ==
    IF ~readDirOk
    THEN [res |-> "error", changed |-> {}]
    ELSE LET included == { file \in entries : Included(file, t) } IN
         IF included # {} /\ ~absOk
         THEN [res |-> "error", changed |-> {}]
         ELSE [res |-> "nil",
               changed |-> { [dir |-> "cwd", name |-> file.name] :
                             file \in included }]

(***************************************************************************)
(* MakeArtefact (404-419) and HandleOutputFile (341-353)                   *)
(***************************************************************************)
HasSuffixJson(n) ==
    Len(n) >= 2 /\ n[Len(n) - 1] = "." /\ n[Len(n)] = "json"

\* http.DetectContentType
DetectContentType(data) ==
    IF \A i \in 1..Len(data) : data[i] >= 32
    THEN <<"text/plain; charset=utf-8">>
    ELSE <<"application/octet-stream">>

\* base64.StdEncoding.EncodeToString, three bytes at a time
RECURSIVE Base64Encode(_)
Base64Encode(data) ==
    IF data = <<>> THEN <<>>
    ELSE LET n == IF Len(data) < 3 THEN Len(data) ELSE 3
             group == SubSeq(data, 1, n)
         IN <<CHOOSE k \in DOMAIN Base64Table : Base64Table[k] = group>>
            \o Base64Encode(SubSeq(data, n + 1, Len(data)))

MakeArtefact(file) ==
    LET contentType == DetectContentType(file.data) IN
    [name |-> file.name,
     contentType |-> contentType,
     uri |-> <<"data:">> \o contentType \o <<";base64", ",">>
             \o Base64Encode(file.data)]

\* the file read is the one path names: an entry of directory path.dir
HandleOutputFile(path, ioOk) ==
    LET found == { e \in fs[path.dir] : e.name = path.name } IN
    IF found = {} \/ ~ioOk \/ \E e \in found : e.isDir
    THEN [res |-> "error", value |-> <<>>]
    ELSE LET file == CHOOSE e \in found : TRUE IN
         IF HasSuffixJson(path.name)
         THEN [res |-> "nil", value |-> [json |-> file.data]]
         ELSE [res |-> "nil", value |-> [artefact |-> MakeArtefact(file)]]

(***************************************************************************)
(* PackageResult (314-339)                                                 *)
(***************************************************************************)
PackageResult(dir, t, stdout, stderr, readDirOk, absOk, ioOk) ==
    LET g == GetChangedFiles(fs[dir], t, readDirOk, absOk) IN
    IF g.res # "nil"
    THEN [res |-> "error", changed |-> [res |-> "error", paths |-> {}],
          response |-> NoResponse]
    ELSE IF \E path \in g.changed : HandleOutputFile(path, ioOk).res # "nil"
    THEN [res |-> "error", changed |-> [res |-> "nil", paths |-> g.changed],
          response |-> NoResponse]
    ELSE [res |-> "nil",
          changed |-> [res |-> "nil", paths |-> g.changed],
          response |->
             [logs |-> TrimAndSplit(stdout),
              errors |-> TrimAndSplit(stderr),
              outputs |-> { [key |-> path.name,
                             value |-> HandleOutputFile(path, ioOk).value] :
                            path \in g.changed }]]

(***************************************************************************)
(* One call of RunCalculation (156-228) in detail: from main with          *)
(* dirpath the current directory (91), or from the handler with dirpath a  *)
(* fresh temp directory (123-125).                                         *)
(***************************************************************************)
ServiceIdle ==
    /\ maxClients = 1
    /\ semaCount = 0
    /\ sendq = <<>>
    /\ pc = [r \in Requests |-> "new"]
    /\ method = [r \in Requests |-> "POST"]
    /\ tempDirs = {}
    /\ dirCreated = [r \in Requests |-> FALSE]
    /\ jobRun = [r \in Requests |-> FALSE]
    /\ result = [r \in Requests |-> "none"]
    /\ status = [r \in Requests |-> 0]
    /\ wasBlocked = [r \in Requests |-> FALSE]

\* what the process's current directory holds when the call starts
InitialCwd ==
    { {},
      {File(BJson, 0, <<"7">>)},
      {Subdir(SubName, 0), File(OutBin, 0, <<0, 0, 0>>)} }

InitJob ==
    /\ ServiceIdle
    /\ UnitIdle
    /\ dirpath \in Dirs
    /\ \E c \in InitialCwd : fs = [d \in Dirs |-> IF d = "cwd" THEN c ELSE {}]
    /\ fs0 = fs
    /\ now = 0
    /\ timeout \in 1..MaxTimeout
    /\ jpc = "GetContext"
    /\ calcContext = {}
    /\ getResp = NoResp
    /\ since = 0
    /\ deadline = -1
    /\ ctxErr = "nil"
    /\ proc = "none"
    /\ nwrites = 0
    /\ written = {}
    /\ exitedAt = -1
    /\ stdoutBuf = <<>>
    /\ stderrBuf = <<>>
    /\ changed = NoChanged
    /\ response = NoResponse
    /\ uploads = <<>>
    /\ postResp = NoResp
    /\ expired = FALSE
    /\ jresult = "none"
    /\ stageLog = <<>>

JobEnded == jpc \in {"returned", "panicked"}

\* the positions up to the last reading of ctx.Err() (207)
ClockPcs ==
    {"GetContext", "ExpandContext", "Now", "Start", "Running", "CtxCheck"}

\* time passes
Tick ==
    /\ jpc \in ClockPcs
    /\ now < MaxTime
    /\ now' = now + 1
    /\ UNCHANGED <<usvars, postResp, expired, dirpath, fs, fs0, timeout, jpc,
                   calcContext, getResp, since, deadline, ctxErr, proc,
                   nwrites, stdoutBuf, stderrBuf, changed, response, uploads,
                   jresult, stageLog,
                   written, exitedAt>>

\* cancel() (217, 226)
Cancel == IF ctxErr = "nil" THEN "Canceled" ELSE ctxErr

\* return of an error before ctx exists (165, 172)
ReturnEarly(res) ==
    /\ jresult' = res
    /\ jpc' = "returned"

\* 161-166
JGetContext ==
    /\ jpc = "GetContext"
    /\ \E resp \in GetResponses :
         LET g == GetContext(resp) IN
         /\ getResp' = resp
         /\ stageLog' = Append(stageLog, "GetContext")
         /\ IF g.res = "nil"
            THEN /\ calcContext' = g.inputs
                 /\ jpc' = "ExpandContext"
                 /\ UNCHANGED jresult
            ELSE /\ ReturnEarly(g.res)
                 /\ UNCHANGED calcContext
    /\ UNCHANGED <<usvars, postResp, expired, dirpath, fs, fs0, now, timeout,
                   since, deadline, ctxErr, proc, nwrites, stdoutBuf,
                   stderrBuf, changed, response, uploads,
                   written, exitedAt>>

\* 168-173: one iteration of ExpandContext's loop (249-257), or its normal end
JExpandContext ==
    /\ jpc = "ExpandContext"
    /\ stageLog' = IF stageLog[Len(stageLog)] = "ExpandContext"
                   THEN stageLog ELSE Append(stageLog, "ExpandContext")
    /\ IF calcContext = {}
       THEN /\ jpc' = "Now"
            /\ UNCHANGED <<fs, calcContext, jresult>>
       ELSE \E in \in calcContext, ioOk \in BOOLEAN :
              LET o == ExpandContextFile(in.name, in.value, ioOk) IN
              /\ fs' = [fs EXCEPT ![dirpath] =
                          IF o.writes = {} THEN @
                          ELSE LET w == CHOOSE x \in o.writes : TRUE
                               IN WriteEntry(@, File(w.name, now, w.data))]
              /\ CASE o.res = "nil" ->
                        /\ calcContext' = calcContext \ {in}
                        /\ UNCHANGED <<jpc, jresult>>
                   [] o.res = "error" ->
                        /\ ReturnEarly("error")
                        /\ UNCHANGED calcContext
                   [] o.res = "panic" ->
                        /\ jresult' = "panic"
                        /\ jpc' = "panicked"
                        /\ UNCHANGED calcContext
    /\ UNCHANGED <<usvars, postResp, expired, dirpath, fs0, now, timeout,
                   getResp, since, deadline, ctxErr, proc, nwrites, stdoutBuf,
                   stderrBuf, changed, response, uploads,
                   written, exitedAt>>

\* 175-179: t := time.Now() and the context with its deadline
JNow ==
    /\ jpc = "Now"
    /\ since' = now
    /\ deadline' = now + timeout
    /\ stageLog' = Append(stageLog, "Now")
    /\ jpc' = "Start"
    /\ UNCHANGED <<usvars, postResp, expired, dirpath, fs, fs0, now, timeout,
                   calcContext, getResp, ctxErr, proc, nwrites, stdoutBuf,
                   stderrBuf, changed, response, uploads, jresult,
                   written, exitedAt>>

\* the timer of context.WithTimeout
DeadlineFires ==
    /\ jpc \in ClockPcs
    /\ deadline >= 0
    /\ ctxErr = "nil"
    /\ now >= deadline
    /\ ctxErr' = "DeadlineExceeded"
    /\ expired' = (proc = "running")
    /\ UNCHANGED <<usvars, postResp, dirpath, fs, fs0, now, timeout, jpc,
                   calcContext, getResp, since, deadline, proc, nwrites,
                   stdoutBuf, stderrBuf, changed, response, uploads, jresult,
                   stageLog,
                   written, exitedAt>>

\* 181-199: cmd.Run starts the command; it does not when ctx is already done
\* or the shell cannot be started, and then returns that error at once (200-202)
JStart ==
    /\ jpc = "Start"
    /\ stageLog' = Append(stageLog, "Run")
    /\ IF ctxErr # "nil"
       THEN /\ stderrBuf' = Append(stderrBuf, "context deadline exceeded")
            /\ jpc' = "CtxCheck"
            /\ UNCHANGED proc
       ELSE \E startOk \in BOOLEAN :
              IF startOk
              THEN /\ proc' = "running"
                   /\ jpc' = "Running"
                   /\ UNCHANGED stderrBuf
              ELSE /\ stderrBuf' = Append(stderrBuf, "exec: not started")
                   /\ jpc' = "CtxCheck"
                   /\ UNCHANGED proc
    /\ UNCHANGED <<usvars, postResp, expired, dirpath, fs, fs0, now, timeout,
                   calcContext, getResp, since, deadline, ctxErr, nwrites,
                   stdoutBuf, changed, response, uploads, jresult,
                   written, exitedAt>>

(***************************************************************************)
(* The command's process, started with cmd.Dir = dirpath (190)             *)
(***************************************************************************)
\* what the command may create or rewrite in its working directory
ProcEntries ==
    { File(AJson, now, <<"5">>), File(BJson, now, <<"5">>),
      File(AJson, now, <<"{", "oops">>),
      File(OutBin, now, <<65, 66, 67>>), Subdir(SubName, now) }

ProcWrite ==
    /\ proc = "running"
    /\ nwrites < MaxWrites
    /\ \E e \in ProcEntries :
         /\ fs' = [fs EXCEPT ![dirpath] = WriteEntry(@, e)]
         /\ written' = written \cup {e.name}
    /\ nwrites' = nwrites + 1
    /\ UNCHANGED <<usvars, postResp, expired, dirpath, fs0, now, timeout, jpc,
                   calcContext, getResp, since, deadline, ctxErr, proc,
                   stdoutBuf, stderrBuf, changed, response, uploads, jresult,
                   stageLog, exitedAt>>

\* the command prints a line, to stdout or to stderr (193-195)
ProcPrint ==
    /\ proc = "running"
    /\ \/ /\ stdoutBuf = <<>>
          /\ stdoutBuf' = <<"working", "\n">>
          /\ UNCHANGED stderrBuf
       \/ /\ stderrBuf = <<>>
          /\ stderrBuf' = <<"oops", "\n">>
          /\ UNCHANGED stdoutBuf
    /\ UNCHANGED <<usvars, postResp, expired, dirpath, fs, fs0, now, timeout,
                   jpc, calcContext, getResp, since, deadline, ctxErr, proc,
                   nwrites, changed, response, uploads, jresult, stageLog,
                   written, exitedAt>>

\* the command ends by itself
ProcExit ==
    /\ proc = "running"
    /\ \E code \in {0, 1} : proc' = IF code = 0 THEN "exit0" ELSE "exit1"
    /\ exitedAt' = now
    /\ UNCHANGED <<usvars, postResp, expired, dirpath, fs, fs0, now, timeout,
                   jpc, calcContext, getResp, since, deadline, ctxErr,
                   nwrites, stdoutBuf, stderrBuf, changed, response, uploads,
                   jresult, stageLog,
                   written>>

\* exec.CommandContext kills the process once ctx is done
ProcKill ==
    /\ proc = "running"
    /\ ctxErr = "DeadlineExceeded"
    /\ proc' = "killed"
    /\ UNCHANGED <<usvars, postResp, expired, dirpath, fs, fs0, now, timeout,
                   jpc, calcContext, getResp, since, deadline, ctxErr,
                   nwrites, stdoutBuf, stderrBuf, changed, response, uploads,
                   jresult, stageLog,
                   written, exitedAt>>

RunErrorDropped(p) == <<>>

\* err.Error() of what cmd.Run returns for an ended process
RunError(p) ==
    CASE p = "exit0" -> <<>>
      [] p = "exit1" -> <<"exit status 1">>
      [] p = "killed" -> <<"signal: killed">>

\* 199-202: cmd.Run returns; its error only goes to the captured stderr
JWait ==
    /\ jpc = "Running"
    /\ proc \in {"exit0", "exit1", "killed"}
    /\ stderrBuf' = stderrBuf \o RunError(proc)
    /\ jpc' = "CtxCheck"
    /\ UNCHANGED <<usvars, postResp, expired, dirpath, fs, fs0, now, timeout,
                   calcContext, getResp, since, deadline, ctxErr, proc,
                   nwrites, stdoutBuf, changed, response, uploads, jresult,
                   stageLog,
                   written, exitedAt>>

TimedOutNever(e) == FALSE

\* 204-210
TimedOut(e) == e = "DeadlineExceeded"

JCtxCheck ==
    /\ jpc = "CtxCheck"
    /\ stderrBuf' = IF TimedOut(ctxErr)
                    THEN Append(stderrBuf, "Command timed out")
                    ELSE stderrBuf
    /\ jpc' = "PackageResult"
    /\ UNCHANGED <<usvars, postResp, expired, dirpath, fs, fs0, now, timeout,
                   calcContext, getResp, since, deadline, ctxErr, proc,
                   nwrites, stdoutBuf, changed, response, uploads, jresult,
                   stageLog,
                   written, exitedAt>>

\* 212-219
JPackageResult ==
    /\ jpc = "PackageResult"
    /\ stageLog' = Append(stageLog, "PackageResult")
    /\ \E fail \in {"none", "ReadDir", "Abs", "ReadFile"} :
         LET p == PackageResult(dirpath, since, stdoutBuf, stderrBuf,
                                fail # "ReadDir", fail # "Abs",
                                fail # "ReadFile") IN
         /\ changed' = p.changed
         /\ response' = p.response
         /\ IF p.res = "nil"
            THEN /\ jpc' = "SendResult"
                 /\ UNCHANGED <<ctxErr, jresult>>
            ELSE /\ ctxErr' = Cancel
                 /\ jresult' = p.res
                 /\ jpc' = "returned"
    /\ UNCHANGED <<usvars, postResp, expired, dirpath, fs, fs0, now, timeout,
                   calcContext, getResp, since, deadline, proc, nwrites,
                   stdoutBuf, stderrBuf, uploads,
                   written, exitedAt>>

\* 221-227
JSendResult ==
    /\ jpc = "SendResult"
    /\ stageLog' = Append(stageLog, "SendResult")
    /\ uploads' = Append(uploads, response)
    /\ \E resp \in PostResponses :
         LET res == SendResult(resp) IN
         /\ postResp' = resp
         /\ IF res = "panic"
            THEN /\ jresult' = "panic"
                 /\ jpc' = "panicked"
                 /\ UNCHANGED ctxErr
            ELSE /\ ctxErr' = Cancel
                 /\ jresult' = res
                 /\ jpc' = "returned"
    /\ UNCHANGED <<usvars, expired, dirpath, fs, fs0, now, timeout,
                   calcContext, getResp, since, deadline, proc, nwrites,
                   stdoutBuf, stderrBuf, changed, response,
                   written, exitedAt>>

NextJob ==
    \/ Tick
    \/ JGetContext
    \/ JExpandContext
    \/ JNow
    \/ DeadlineFires
    \/ JStart
    \/ ProcWrite
    \/ ProcPrint
    \/ ProcExit
    \/ ProcKill
    \/ JWait
    \/ JCtxCheck
    \/ JPackageResult
    \/ JSendResult

JobSpec == InitJob /\ [][NextJob]_vars

\* the steps of request r's goroutine once it holds a slot
HandlerStep(r) ==
    \/ \E ok \in BOOLEAN : HandlerBegin(r, ok)
    \/ HFetchExpand(r)
    \/ HRun(r)
    \/ HWait(r)
    \/ HPackageResult(r)
    \/ HSendResult(r)

\* every admitted handler keeps running until it ends
FairSpec == Spec /\ \A r \in Requests : WF_vars(HandlerStep(r))

(***************************************************************************)
(* One call of a function of runner.go on its own                          *)
(***************************************************************************)
\* captured output: words, blanks and line ends
TextTokens == {"a", " ", "\n"}

Texts == UNION { [1..n -> TextTokens] : n \in 0..MaxText }

TrimAndSplitCalls == { [fn |-> "TrimAndSplit", str |-> s] : s \in Texts }

\* names of the files and Artefacts the codec is given: with one
\* extension, with none, with two, a dot file, and a .json name
FileNames ==
    { PngName, <<"Makefile">>, <<"a", ".", "tar", ".", "gz">>,
      <<".", "bashrc">>, <<"d", ".", "json">> }

Bytes == {0, 65}

ByteSeqs == UNION { [1..n -> Bytes] : n \in 0..MaxData }

NoOrigin == [none |-> TRUE]

MakeArtefactCalls ==
    { [fn |-> "MakeArtefact", file |-> File(n, 0, d)] :
        n \in FileNames, d \in ByteSeqs }

\* uris an Artefact of the context may carry
Uris ==
    { GoodUri, NoSchemeUri, NoCommaUri, BadB64Uri, EmptyPayloadUri,
      TwoCommaUri, PaddedUri }

ReadArtefactCalls ==
    { [fn |-> "ReadArtefact", name |-> "in",
       artefact |-> [name |-> n, contentType |-> <<"image/png">>, uri |-> u],
       origin |-> NoOrigin] :
        n \in FileNames, u \in Uris }

\* values of an input: those of Contents, the other plain shapes, and
\* Artefacts
UnitContents ==
    Contents
    \cup { Str(<<"hi">>), TrueValue, Array5,
           Obj(Str(PngName), NULL, Str(GoodUri)),
           Obj(NULL, Str(<<"image/png">>), Str(GoodUri)),
           Obj(Str(PngName), Str(<<"image/png">>), NULL) }
    \cup { Obj(Str(n), Str(<<"image/png">>), Str(u)) :
             n \in FileNames, u \in Uris }

ExpandContextFileCalls ==
    { [fn |-> "ExpandContextFile", name |-> "a", content |-> c, ioOk |-> b] :
        c \in UnitContents, b \in BOOLEAN }

\* the -h and -t flags the server was started with (69-70)
ServerHost == <<"h0">>
ServerToken == <<"t0">>

\* request bodies: a bare id, nothing, a full payload, a payload with the
\* id only, a payload with an unknown key, cut-off JSON, JSON after a blank
Bodies ==
    { <<"c0">>, <<>>,
      <<"{", "id", "c1", "host", "h1", "token", "t1", "}">>,
      <<"{", "host", "h1", "id", "c1", "}">>,
      <<"{", "id", "c1", "}">>,
      <<"{", "owner", "me", "token", "t1", "}">>,
      <<"{", "}">>,
      <<"{", "id", "c1">>,
      <<"{", "oops", "}">>,
      <<" ", "{", "id", "c1", "}">> }

\* json.Unmarshal's syntax check: an object of key-value pairs
ValidPayload(body) ==
    /\ Len(body) >= 2
    /\ body[1] = "{" /\ body[Len(body)] = "}"
    /\ Len(body) % 2 = 0

\* the string json.Unmarshal stores for key: the value that follows the
\* key's last occurrence, or the zero value when the key is absent
FieldOf(body, key) ==
    LET at == { i \in 2..(Len(body) - 2) : i % 2 = 0 /\ body[i] = key } IN
    IF at = {} THEN <<>>
    ELSE <<body[(CHOOSE i \in at : \A j \in at : j <= i) + 1]>>

\* var calc CalculationPayload; json.Unmarshal(..., &calc), error dropped
\* (121-122): calc keeps its zero value when the body is not valid JSON
UnmarshalPayload(body) ==
    IF ValidPayload(body)
    THEN [Id |-> FieldOf(body, "id"), Host |-> FieldOf(body, "host"),
          Token |-> FieldOf(body, "token")]
    ELSE [Id |-> <<>>, Host |-> <<>>, Token |-> <<>>]

CalculationArgsServerCreds(body, host, token) ==
    IF HasPrefix(body, "{")
    THEN [host |-> host, token |-> token,
          calculation |-> UnmarshalPayload(body).Id]
    ELSE [host |-> host, token |-> token, calculation |-> body]

\* the host, token and calculation the handler passes to RunCalculation
\* (119-126)
CalculationArgs(body, host, token) ==
    IF HasPrefix(body, "{")
    THEN LET calc == UnmarshalPayload(body) IN
         [host |-> calc.Host, token |-> calc.Token, calculation |-> calc.Id]
    ELSE [host |-> host, token |-> token, calculation |-> body]

ServerCalls ==
    { [fn |-> "Server", body |-> b, host |-> ServerHost,
       token |-> ServerToken] : b \in Bodies }

Calls ==
    TrimAndSplitCalls \cup MakeArtefactCalls \cup ReadArtefactCalls
    \cup ExpandContextFileCalls \cup ServerCalls

InitUnit ==
    /\ ServiceIdle
    /\ JobIdle
    /\ call \in Calls
    /\ ret = NoRet

\* TrimAndSplit(str) (292-299), as PackageResult calls it (316-317)
UTrimAndSplit ==
    /\ call.fn = "TrimAndSplit"
    /\ ret = NoRet
    /\ ret' = [res |-> "nil", value |-> TrimAndSplit(call.str)]
    /\ UNCHANGED <<svars, jvars, call>>

\* MakeArtefact(path) (404-419) on a file that can be read
UMakeArtefact ==
    /\ call.fn = "MakeArtefact"
    /\ ret = NoRet
    /\ ret' = [res |-> "nil", artefact |-> MakeArtefact(call.file)]
    /\ UNCHANGED <<svars, jvars, call>>

\* the Artefact MakeArtefact returned comes back as the value of input
\* "in" and is handed to ReadArtefact (425-429)
UDecodeEncoded ==
    /\ call.fn = "MakeArtefact"
    /\ ret # NoRet
    /\ call' = [fn |-> "ReadArtefact", name |-> "in",
                artefact |-> ret.artefact, origin |-> call.file]
    /\ ret' = NoRet
    /\ UNCHANGED <<svars, jvars>>

\* ReadArtefact(dirpath, name, artefact) (436-449) into a writable directory
UReadArtefact ==
    /\ call.fn = "ReadArtefact"
    /\ ret = NoRet
    /\ ret' = ReadArtefact(call.name, call.artefact, TRUE)
    /\ UNCHANGED <<svars, jvars, call>>

\* ExpandContextFile(dirpath, name, content) (259-274)
UExpandContextFile ==
    /\ call.fn = "ExpandContextFile"
    /\ ret = NoRet
    /\ ret' = ExpandContextFile(call.name, call.content, call.ioOk)
    /\ UNCHANGED <<svars, jvars, call>>

\* the handler of a POST reads the body and calls RunCalculation (119-126)
UServer ==
    /\ call.fn = "Server"
    /\ ret = NoRet
    /\ ret' = [res |-> "called",
               args |-> CalculationArgs(call.body, call.host, call.token)]
    /\ UNCHANGED <<svars, jvars, call>>

NextUnit ==
    \/ UTrimAndSplit
    \/ UServer
    \/ UExpandContextFile
    \/ UMakeArtefact
    \/ UDecodeEncoded
    \/ UReadArtefact

UnitSpec == InitUnit /\ [][NextUnit]_vars

(***************************************************************************)
(* Properties of service mode                                              *)
(***************************************************************************)
InHandlerPcs == {"handler", "GetContext", "ExpandContext", "Run", "Running",
                 "PackageResult", "SendResult"}

InHandler(r) == pc[r] \in InHandlerPcs

Ended(r) == pc[r] \in {"done", "panicked"}

\* C1: at most maxClients requests are inside the wrapped handler at any
\* time; with capacity 1, no request's command is started or running while
\* another request is still being handled.
C1_AtMostNInHandler ==
    /\ Cardinality({r \in Requests : InHandler(r)}) <= maxClients
    /\ maxClients = 1 =>
         \A r1, r2 \in Requests :
            (r1 # r2 /\ InHandler(r1)) => pc[r2] \notin {"Run", "Running"}

C1_Witness ==
    /\ maxClients = 1
    /\ \E r1, r2 \in Requests :
         r1 # r2 /\ pc[r1] = "Running" /\ pc[r2] = "blocked"

\* C5: once the handling of a POST request whose temp directory was created
\* has ended, normally or by a panic, that directory no longer exists.
C5_TempDirRemoved ==
    \A r \in Requests : (Ended(r) /\ dirCreated[r]) => r \notin tempDirs

\* C6: the number of occupied slots equals the number of requests inside the
\* handler, whatever way earlier handlers ended (200, 500, 404, TempDir
\* failure, panic), and is 0 when no request is in progress.
C6_SlotsMatchHandlers ==
    /\ semaCount = Cardinality({r \in Requests : InHandler(r)})
    /\ (\A r \in Requests : pc[r] \in {"new", "done", "panicked"}) =>
          semaCount = 0

C6_Witness ==
    /\ semaCount = 0
    /\ \E r1, r2 \in Requests :
         /\ pc[r1] = "panicked"
         /\ pc[r2] = "done" /\ status[r2] \in {404, 500}

\* C7: under FairSpec every request blocked on the gate is eventually
\* admitted, and a request gets a status only from its own handler having
\* run to its end, never while it is waiting for a slot.
C7_ThrottlesNeverRejects ==
    /\ \A r \in Requests : (pc[r] = "blocked") ~> (pc[r] = "handler")
    /\ [](\A r \in Requests : status[r] # 0 => pc[r] = "done")

C7_Witness ==
    \E r \in Requests : wasBlocked[r] /\ pc[r] = "done" /\ status[r] = 200

\* C8: the status is 200 exactly when the method is POST and RunCalculation
\* returned no error; 500 when the method is POST and TempDir or a pipeline
\* stage failed; 404 when the method is not POST, and then no temp directory
\* was created and no job was run.
C8_StatusMapping ==
    \A r \in Requests :
       Ended(r) =>
         /\ status[r] = 200 <=> (method[r] = "POST" /\ result[r] = "nil")
         /\ (/\ method[r] = "POST"
             /\ (~dirCreated[r] \/ result[r] \in {"error", "panic"}))
               => status[r] = 500
         /\ method[r] # "POST" =>
               (status[r] = 404 /\ ~dirCreated[r] /\ ~jobRun[r])

(***************************************************************************)
(* Properties of one RunCalculation call                                   *)
(***************************************************************************)
Range(seq) == { seq[i] : i \in 1..Len(seq) }

IsPrefix(a, b) == Len(a) <= Len(b) /\ a = SubSeq(b, 1, Len(a))

StageOrder ==
    <<"GetContext", "ExpandContext", "Now", "Run", "PackageResult",
      "SendResult">>

FetchFailed == getResp # NoResp /\ GetContext(getResp).res # "nil"

UploadOk ==
    postResp # NoResp /\ postResp.transport = "ok" /\ postResp.status = 200

UploadFailed == postResp # NoResp /\ ~UploadOk

Packaged == response # NoResponse

\* the text occurs in stderr as packaged into the response's errors
InErrors(text) ==
    \E i \in 1..Len(response.errors) : text \in Range(response.errors[i])

\* C2: the stages run in the fixed order; the command is launched only after
\* the fetch and the materialization succeeded; the upload happens at most
\* once and only after packaging succeeded; and a failed stage ends the call
\* with that failure returned to the caller.
C2_StagesShortCircuit ==
    /\ IsPrefix(stageLog, StageOrder)
    /\ "Run" \in Range(stageLog) =>
          (getResp # NoResp /\ ~FetchFailed /\ calcContext = {})
    /\ Len(uploads) <= 1
    /\ uploads # <<>> => (Packaged /\ uploads = <<response>>)
    /\ (JobEnded /\ (FetchFailed \/ UploadFailed)) =>
          (jpc = "returned" /\ jresult = "error")
    /\ jpc = "panicked" => FALSE

\* C3: when the deadline passes while the command is running, the process
\* is killed unless it ends by itself first, and cmd.Run returns only once
\* it has ended; from line 207 on the captured stderr has "Command timed
\* out"; the call goes on to package, the packaged errors carry the text,
\* and the call returns nil whenever packaging and upload succeeded: an
\* error is returned only for a failed packaging or a failed upload.
C3_TimeoutIsData ==
    /\ proc = "killed" => expired
    /\ expired =>
         /\ proc = "running" => ENABLED ProcKill
         /\ jpc # "Running" => proc \in {"killed", "exit0", "exit1"}
         /\ jpc \in {"PackageResult", "SendResult", "returned", "panicked"} =>
               "Command timed out" \in Range(stderrBuf)
         /\ Packaged => InErrors("Command timed out")
         /\ JobEnded => "PackageResult" \in Range(stageLog)
         /\ (JobEnded /\ Packaged /\ UploadOk) =>
               (jpc = "returned" /\ jresult = "nil" /\ uploads = <<response>>)
         /\ jresult = "error" => (~Packaged \/ UploadFailed)

C3_Witness ==
    /\ expired /\ proc = "killed"
    /\ jpc = "returned" /\ jresult = "nil"
    /\ uploads = <<response>> /\ InErrors("Command timed out")

\* C4: when the command exited with a non-zero status, the exit error's text
\* is in the captured stderr once cmd.Run has returned, the call went on to
\* package, the packaged errors carry the text, and the call returns nil
\* whenever packaging and upload succeeded.
C4_ExitErrorIsData ==
    proc = "exit1" =>
      /\ jpc # "Running" => "exit status 1" \in Range(stderrBuf)
      /\ Packaged => InErrors("exit status 1")
      /\ JobEnded => "PackageResult" \in Range(stageLog)
      /\ (JobEnded /\ Packaged /\ UploadOk) =>
            (jpc = "returned" /\ jresult = "nil" /\ uploads = <<response>>)
      /\ jresult = "error" => (~Packaged \/ UploadFailed)

C4_Witness ==
    /\ proc = "exit1" /\ ctxErr = "Canceled"
    /\ jpc = "returned" /\ jresult = "nil"
    /\ uploads = <<response>> /\ InErrors("exit status 1")

\* C9: when the GET is answered with a status other than 200, the call has
\* returned an error with the working directory as it was, no command
\* started and nothing uploaded.
C9_Non200FetchFails ==
    (getResp # NoResp /\ getResp.transport = "ok" /\ getResp.status # 200) =>
      /\ jpc = "returned" /\ jresult = "error"
      /\ fs = fs0
      /\ proc = "none" /\ "Run" \notin Range(stageLog)
      /\ uploads = <<>>

C9_Witness ==
    /\ getResp # NoResp /\ getResp.transport = "ok" /\ getResp.status = 404
    /\ getResp.inputs # {}
    /\ jpc = "returned" /\ jresult = "error"

\* C10: what GetChangedFiles returned names no entry of the working
\* directory modified at or before since and no subdirectory, and names
\* every non-directory entry modified strictly after since.
C10_ChangeScanner ==
    changed.res = "nil" =>
      /\ \A p \in changed.paths :
            \E e \in fs[dirpath] :
               e.name = p.name /\ ~e.isDir /\ e.mtime > since
      /\ \A e \in fs[dirpath] :
            (~e.isDir /\ e.mtime > since) =>
               \E p \in changed.paths : p.name = e.name

C10_Witness ==
    /\ changed.res = "nil"
    /\ \E e1, e2, e3 \in fs[dirpath] :
         /\ ~e1.isDir /\ e1.mtime <= since
         /\ e2.isDir
         /\ ~e3.isDir /\ e3.mtime > since
         /\ e3.name \in { p.name : p \in changed.paths }
         /\ e1.name \notin { p.name : p \in changed.paths }

\* a file name without its extension
Stem(n) ==
    IF "." \in Range(n) THEN SubSeq(n, 1, LastIndex(n, ".") - 1) ELSE n

\* C15: in the packaged response the key of each output is the name of a
\* changed file without its extension, and every changed file has its
\* output; b.json holding 5 is packaged as output b with value 5.
C15_OutputKeyIsStem ==
    Packaged =>
      /\ \A o \in response.outputs :
            \E p \in changed.paths : o.key = Stem(p.name)
      /\ \A p \in changed.paths :
            \E o \in response.outputs : o.key = Stem(p.name)
      /\ (\E p \in changed.paths : p.name = BJson) =>
            \E o \in response.outputs :
               o.key = <<"b">> /\ o.value = [json |-> <<"5">>]

\* the file's text is a JSON value
ValidJson(d) == d \in { JsonMarshal(v) : v \in Contents } \cup {<<"7">>}

\* C16: when a changed file named *.json does not hold valid JSON,
\* packaging fails: no response is built, RunCalculation returns an error
\* and nothing is uploaded.
C16_InvalidJsonAborts ==
    (/\ changed.res = "nil"
     /\ \E p \in changed.paths :
          /\ HasSuffixJson(p.name)
          /\ \E e \in fs[p.dir] :
               e.name = p.name /\ ~e.isDir /\ ~ValidJson(e.data)) =>
      /\ ~Packaged
      /\ uploads = <<>>
      /\ jpc = "returned" /\ jresult = "error"

\* C17: once the POST was answered by a transport failure or by a status
\* other than 200, SendResult has returned an error and RunCalculation
\* has returned it to its caller, after cancel(); the call has not ended
\* by a panic.
C17_UploadFailureReturned ==
    UploadFailed =>
      /\ SendResult(postResp) = "error"
      /\ jpc = "returned" /\ jresult = "error"
      /\ ctxErr # "nil"

\* C20: when line 208 appended "Command timed out" to the captured
\* stderr, the errors of the packaged response have an element that is
\* exactly that text, and the exit error's message, when there is one, is
\* another element of its own.
C20_TimedOutOwnLine ==
    (Packaged /\ "Command timed out" \in Range(stderrBuf)) =>
      /\ \E i \in 1..Len(response.errors) :
            response.errors[i] = <<"Command timed out">>
      /\ proc = "killed" =>
            \E i \in 1..Len(response.errors) :
               response.errors[i] = RunError(proc)

\* what packaging makes of entry e of a directory
OutputOf(e) ==
    IF HasSuffixJson(e.name) THEN [json |-> e.data]
    ELSE [artefact |-> MakeArtefact(e)]

\* C21: every path GetChangedFiles returned names a file inside dirpath,
\* whichever directory that is, and every output of the packaged response
\* holds the content of the file of that name in dirpath.
C21_OutputsFromDirpath ==
    /\ changed.res = "nil" => \A p \in changed.paths : p.dir = dirpath
    /\ Packaged =>
         \A o \in response.outputs :
            \E e \in fs[dirpath] :
               e.name = o.key /\ ~e.isDir /\ o.value = OutputOf(e)

\* C22: since is taken after the inputs were materialized and before the
\* command is started; in the packaged response no entry of the working
\* directory that the command did not write is an output, and every file
\* the command wrote is one.
C22_OutputsAreWhatCommandWrote ==
    /\ proc # "none" =>
         (calcContext = {} /\ "Now" \in Range(stageLog) /\ since <= now)
    /\ Packaged =>
         /\ \A e \in fs[dirpath] :
               e.name \notin written =>
                  \A o \in response.outputs : o.key # e.name
         /\ \A e \in fs[dirpath] :
               (e.name \in written /\ ~e.isDir) =>
                  \E o \in response.outputs : o.key = e.name

\* C23: when the process ended by itself before the deadline, with status
\* zero or not, neither the captured stderr nor the errors of the packaged
\* response hold "Command timed out", whenever the timer fires afterwards.
C23_NoMarkerWhenExitedInTime ==
    (proc \in {"exit0", "exit1"} /\ exitedAt < deadline) =>
      /\ "Command timed out" \notin Range(stderrBuf)
      /\ Packaged => ~InErrors("Command timed out")

(***************************************************************************)
(* Properties of single calls                                              *)
(***************************************************************************)
Returned(f) == call.fn = f /\ ret # NoRet

Whitespace == {" ", "\t", "\r", "\n"}

\* C11: TrimAndSplit returns the empty sequence exactly when the text holds
\* nothing but whitespace, and otherwise every element it returns is a
\* non-empty line.
C11_NoEmptyLines ==
    Returned("TrimAndSplit") =>
      /\ ret.value = <<>> <=>
            \A i \in 1..Len(call.str) : call.str[i] \in Whitespace
      /\ \A i \in 1..Len(ret.value) : ret.value[i] # <<>>

\* the part of a name after its last ".", none when it has no "."
Extension(n) ==
    IF LastIndex(n, ".") = 0 THEN <<>>
    ELSE SubSeq(n, LastIndex(n, ".") + 1, Len(n))

\* C12: decoding the Artefact that MakeArtefact made of a file writes one
\* file, whose bytes are the original's and whose extension is the
\* original's.
C12_RoundTrip ==
    (Returned("ReadArtefact") /\ call.origin # NoOrigin) =>
      /\ ret.res = "nil"
      /\ \E w \in ret.writes :
           /\ ret.writes = {w}
           /\ w.data = call.origin.data
           /\ Extension(w.name) = Extension(call.origin.name)

\* the detection rule: an object with non-null name, uri and contentType
ArtefactShaped(c) ==
    /\ c.kind = "object"
    /\ c.name # NULL /\ c.uri # NULL /\ c.contentType # NULL

\* C13: for a non-null value that is not Artefact-shaped, ExpandContextFile
\* into a writable directory returns no error and writes exactly the file
\* <name>.json, holding the value's JSON text; a number 5 gives 5.
C13_PlainValueWritten ==
    (/\ Returned("ExpandContextFile")
     /\ call.ioOk
     /\ call.content # NULL
     /\ ~ArtefactShaped(call.content)) =>
      /\ ret.res = "nil"
      /\ ret.writes = {[name |-> <<call.name, ".", "json">>,
                        data |-> JsonMarshal(call.content)]}
      /\ call.content = Number5 =>
            \A w \in ret.writes : w.data = <<"5">>

\* the part of a data URI after its first comma (none: the empty sequence)
Payload(u) == IF Len(SplitN2(u, ",")) = 2 THEN SplitN2(u, ",")[2] ELSE <<>>

\* an Artefact that can be decoded: three strings, the uri a data URI
\* with a comma and valid base64 after the first one
Decodable(c) ==
    /\ ArtefactShaped(c)
    /\ c.name.kind = "string" /\ c.uri.kind = "string"
    /\ c.contentType.kind = "string"
    /\ HasPrefix(c.uri.chars, "data:")
    /\ "," \in Range(c.uri.chars)
    /\ Base64Valid(Payload(c.uri.chars))

\* the extension ReadArtefact gives the file: what follows the last "." of
\* the Artefact's name, the whole name when it has no "."
ArtefactExtension(n) == IF "." \in Range(n) THEN Extension(n) ELSE n

\* C14 as stated, for the calls that return: for every Artefact-shaped
\* value, ExpandContextFile into a writable directory writes the decoded
\* payload to <name>.<ext> and no <name>.json; for a null value it writes
\* no file.
C14_EveryArtefactWritten ==
    (Returned("ExpandContextFile") /\ ret.res # "panic") =>
      /\ call.content = NULL => (ret.res = "nil" /\ ret.writes = {})
      /\ (call.ioOk /\ call.content # NULL /\ ArtefactShaped(call.content)) =>
           /\ ret.res = "nil"
           /\ \E w \in ret.writes :
                /\ w.name = <<call.name, ".">>
                              \o ArtefactExtension(call.content.name.chars)
                /\ w.data = Base64Decode(Payload(call.content.uri.chars))
           /\ \A w \in ret.writes : w.name # <<call.name, ".", "json">>

\* C14, amended: for every decodable Artefact, ExpandContextFile into a
\* writable directory returns no error and writes exactly one file,
\* <name>.<ext> holding the decoded payload, and never the value's JSON
\* text; "AAAA" in x.png gives a.png holding three zero bytes; for a null
\* value it writes no file.
C14_DecodableArtefactWritten ==
    Returned("ExpandContextFile") =>
      /\ call.content = NULL => (ret.res = "nil" /\ ret.writes = {})
      /\ (call.ioOk /\ call.content # NULL /\ Decodable(call.content)) =>
           /\ ret.res = "nil"
           /\ ret.writes =
                {[name |-> <<call.name, ".">>
                             \o ArtefactExtension(call.content.name.chars),
                  data |-> Base64Decode(Payload(call.content.uri.chars))]}
           /\ \A w \in ret.writes : w.data # JsonMarshal(call.content)
      /\ (/\ call.ioOk
          /\ call.content = Obj(Str(PngName), Str(<<"image/png">>),
                                Str(GoodUri))) =>
           ret.writes = {[name |-> <<"a", ".", "png">>, data |-> <<0, 0, 0>>]}

C14_Witness ==
    /\ Returned("ExpandContextFile")
    /\ call.ioOk
    /\ call.content = Obj(Str(PngName), Str(<<"image/png">>), Str(GoodUri))
    /\ ret.res = "nil"
    /\ ret.writes = {[name |-> <<"a", ".", "png">>, data |-> <<0, 0, 0>>]}

\* C18: ReadArtefact returns the error "Not a data URI" for a uri that
\* does not start with "data:", and returns an error for a data URI with
\* no part after a comma or with a part that is not valid base64; in each
\* case it writes no file, and on no uri does it panic.
C18_MalformedUriIsError ==
    Returned("ReadArtefact") =>
      /\ ~HasPrefix(call.artefact.uri, "data:") =>
            /\ ret.res = "error" /\ ret.err = "Not a data URI"
            /\ ret.writes = {}
      /\ (/\ HasPrefix(call.artefact.uri, "data:")
          /\ \/ "," \notin Range(call.artefact.uri)
             \/ ~Base64Valid(Payload(call.artefact.uri))) =>
            /\ ret.res = "error" /\ ret.err # "Not a data URI"
            /\ ret.writes = {}
      /\ ret.res # "panic"

\* C19: for a body that begins with "{" the handler calls RunCalculation
\* with the host, token and id of the CalculationPayload decoded from the
\* body (each empty when the body does not give it, all empty when the
\* body is not valid JSON), never with the server's host or token; for
\* any other body it calls it with the server's host and token and the
\* body, verbatim, as the calculation.
C19_BodySelectsArgs ==
    Returned("Server") =>
      /\ HasPrefix(call.body, "{") =>
           /\ ret.args.host # call.host /\ ret.args.token # call.token
           /\ ret.args.host \in {<<"h1">>, <<>>}
           /\ ret.args.host = <<"h1">> <=>
                 (ValidPayload(call.body) /\ "host" \in Range(call.body))
           /\ ret.args.token = <<"t1">> <=>
                 (ValidPayload(call.body) /\ "token" \in Range(call.body))
           /\ ret.args.calculation = <<"c1">> <=>
                 (ValidPayload(call.body) /\ "id" \in Range(call.body))
           /\ ret.args.token \in {<<"t1">>, <<>>}
           /\ ret.args.calculation \in {<<"c1">>, <<>>}
      /\ ~HasPrefix(call.body, "{") =>
           ret.args = [host |-> call.host, token |-> call.token,
                       calculation |-> call.body]

C19_Witness ==
    /\ Returned("Server")
    /\ call.body = <<"{", "id", "c1", "host", "h1", "token", "t1", "}">>
    /\ ret.args = [host |-> <<"h1">>, token |-> <<"t1">>,
                   calculation |-> <<"c1">>]

====
